---- MODULE Spec2Model ----
(***************************************************************************)
(* Model of the Image Annotation API (src/main.py) and of its image        *)
(* synthesizer (src/utils/img.py).                                         *)
(*                                                                         *)
(* Spec    : the two endpoints.  POST /submit-bbox is followed statement   *)
(*           by statement (loop, raise, print, return); GET                *)
(*           /get-mock-image draws its uuid4 token.  An `async def`        *)
(*           handler without an await runs to completion on the event      *)
(*           loop, so one submission is in progress at a time; image       *)
(*           requests (served by any worker) interleave freely with it.    *)
(* SpecImg : one GET /get-mock-image request, generate_mock_image followed *)
(*           drawing call by drawing call.  The canvas is observed at one  *)
(*           pixel (`probe`), chosen arbitrarily before the request.       *)
(***************************************************************************)
EXTENDS Integers, Sequences, FiniteSets, TLC

(***************************************************************************)
(* Bounds of the model                                                     *)
(***************************************************************************)
\* longest bboxes list a request carries
MaxBoxes == 2
\* number of get-mock-image calls followed
MaxCalls == 2

(***************************************************************************)
(* Request data (src/main.py, BoundingBox and BoundingBoxRequest)          *)
(***************************************************************************)
\* coordinate values of the submitted boxes: they make every ordering of
\* min and max happen on each axis (<, =, >)
XCoords == {10, 100}
YCoords == {20, 200}
Colors == {"red", "blue"}
Shapes == {"rectangle"}

BoundingBox ==
    [x_min : XCoords, y_min : YCoords, x_max : XCoords, y_max : YCoords,
     color : Colors, shape : Shapes]

\* the lists of at most n boxes
BoxLists(n) == UNION {[1..k -> BoundingBox] : k \in 0..n}

\* str(uuid.uuid4()): the tokens the generator can return
UuidTokens ==
    {"9f1c2b7e-3d4a-4c5b-8e6f-0a1b2c3d4e5f", "1a2b3c4d-5e6f-4a7b-9c8d-7e6f5a4b3c2d"}

\* image_id is any string: here a token the server can issue, or a string
\* it never issues
ImageIds == {"9f1c2b7e-3d4a-4c5b-8e6f-0a1b2c3d4e5f", "no-such-image"}

BoundingBoxRequest == [image_id : ImageIds, bboxes : BoxLists(MaxBoxes)]

VARIABLES
    pc,         \* position of the submit_bboxes handler
    data,       \* its argument, the parsed BoundingBoxRequest
    i,          \* index of the box the for loop is at (1-based)
    response,   \* the HTTP response of the last submission
    examined,   \* observer: indices of the boxes the loop has tested, in order
    raised,     \* observer: number of HTTPExceptions raised for this request
    stdout,     \* what the handler has printed for this request
    prev,       \* observer: response to the previous submission of the same body
    issued,     \* observer: the set of tokens returned by get-mock-image
    calls,      \* observer: number of get-mock-image calls answered
    image_resp, \* the HTTP response of the last get-mock-image call
    ipc,        \* position of the get-mock-image request in generate_mock_image
    image_id,   \* the token generate_image drew for the request
    probe,      \* observer: the canvas pixel <<column, row>> that is watched
    pixel,      \* the colour of the canvas at the probe
    num_shapes, \* the shape count drawn by random.choice
    shape_i,    \* number of iterations of the shape loop done
    x_position, \* the position get_random_position returned last
    y_position,
    shape_hit,  \* observer: a shape was painted over the probe
    corners,    \* observer: the boxes of the corner rectangles drawn
    crosshair,  \* observer: the boxes covered by the crosshair lines drawn
    font,       \* the font the caption is drawn with
    caption     \* observer: the box of the caption drawn

apiVars ==
    <<pc, data, i, response, examined, raised, stdout, prev, issued, calls, image_resp>>

imgVars ==
    <<ipc, image_id, probe, pixel, num_shapes, shape_i, x_position, y_position,
      shape_hit, corners, crosshair, font, caption>>

imgVarsButIpc ==
    <<image_id, probe, pixel, num_shapes, shape_i, x_position, y_position,
      shape_hit, corners, crosshair, font, caption>>

vars == <<apiVars, imgVars>>

NoResponse == [status |-> 0]
NoData == [image_id |-> "", bboxes |-> <<>>]

(***************************************************************************)
(* POST /submit-bbox                                                       *)
(***************************************************************************)
\* mutant: both axes must be degenerate for a box to count as invalid
InvalidBox_And(bbox) ==
    bbox.x_min >= bbox.x_max /\ bbox.y_min >= bbox.y_max

\* the condition of the if statement
InvalidBox(bbox) ==
    bbox.x_min >= bbox.x_max \/ bbox.y_min >= bbox.y_max

\* mutant: a submission for an image the server has not issued is refused
Rejects_UnknownImage(d, k) ==
    InvalidBox(d.bboxes[k]) \/ d.image_id \notin issued

\* whether the loop raises at the k-th box of request d
Rejects(d, k) == InvalidBox(d.bboxes[k])

\* what FastAPI sends for the HTTPException raised in the loop
Rejection ==
    [status |-> 400, body |-> [detail |-> "Invalid bounding box coordinates."]]

\* mutant: the acknowledgment echoes the boxes without the last one
Acknowledgment_DropLast(d) ==
    [status |-> 200,
     body |-> [message |-> "Bounding boxes received successfully",
               image_id |-> d.image_id,
               bboxes |-> SubSeq(d.bboxes, 1, Len(d.bboxes) - 1)]]

\* the dict the handler returns, sent with status 200
Acknowledgment(d) ==
    [status |-> 200,
     body |-> [message |-> "Bounding boxes received successfully",
               image_id |-> d.image_id,
               bboxes |-> d.bboxes]]

\* a request arrives and the handler is entered
Receive ==
    /\ pc = "idle"
    /\ \E d \in BoundingBoxRequest :
        /\ data' = d
        /\ prev' = NoResponse
    /\ pc' = "loop"
    /\ i' = 1
    /\ response' = NoResponse
    /\ examined' = <<>>
    /\ raised' = 0
    /\ stdout' = <<>>
    /\ UNCHANGED <<issued, calls, image_resp>>
    /\ UNCHANGED imgVars

\* the client submits the body it submitted last once more
Resubmit ==
    /\ pc = "responded"
    /\ prev' = response
    /\ pc' = "loop"
    /\ i' = 1
    /\ response' = NoResponse
    /\ examined' = <<>>
    /\ raised' = 0
    /\ stdout' = <<>>
    /\ UNCHANGED <<data, issued, calls, image_resp>>
    /\ UNCHANGED imgVars

\* mutant: every box is tested and the error is raised after the scan
CheckBox_ScanAll ==
    /\ pc = "loop"
    /\ i <= Len(data.bboxes)
    /\ examined' = Append(examined, i)
    /\ LET bad == Rejects(data, i) \/ response = Rejection
       IN  IF bad /\ i = Len(data.bboxes)
           THEN /\ raised' = raised + 1
                /\ response' = Rejection
                /\ pc' = "responded"
                /\ i' = i
           ELSE /\ i' = i + 1
                /\ response' = IF bad THEN Rejection ELSE response
                /\ UNCHANGED <<raised, pc>>
    /\ UNCHANGED <<data, stdout, prev, issued, calls, image_resp>>
    /\ UNCHANGED imgVars

\* one iteration of `for bbox in data.bboxes`
CheckBox ==
    /\ pc = "loop"
    /\ i <= Len(data.bboxes)
    /\ examined' = Append(examined, i)
    /\ IF Rejects(data, i)
       THEN /\ raised' = raised + 1
            /\ response' = Rejection
            /\ pc' = "responded"
            /\ i' = i
       ELSE /\ i' = i + 1
            /\ UNCHANGED <<raised, response, pc>>
    /\ UNCHANGED <<data, stdout, prev, issued, calls, image_resp>>
    /\ UNCHANGED imgVars

\* mutant: a request without boxes is refused
LoopDone_RefuseEmpty ==
    /\ pc = "loop"
    /\ i > Len(data.bboxes)
    /\ IF Len(data.bboxes) = 0
       THEN /\ raised' = raised + 1
            /\ response' = Rejection
            /\ pc' = "responded"
       ELSE /\ pc' = "print"
            /\ UNCHANGED <<raised, response>>
    /\ UNCHANGED <<data, i, examined, stdout, prev, issued, calls, image_resp>>
    /\ UNCHANGED imgVars

\* the loop runs out of boxes
LoopDone ==
    /\ pc = "loop"
    /\ i > Len(data.bboxes)
    /\ pc' = "print"
    /\ UNCHANGED <<data, i, response, examined, raised, stdout, prev, issued, calls, image_resp>>
    /\ UNCHANGED imgVars

\* the two print calls
LogData ==
    /\ pc = "print"
    /\ stdout' = <<<<"image_id", data.image_id>>, <<"bboxes", data.bboxes>>>>
    /\ pc' = "return"
    /\ UNCHANGED <<data, i, response, examined, raised, prev, issued, calls, image_resp>>
    /\ UNCHANGED imgVars

\* the return statement
Return ==
    /\ pc = "return"
    /\ response' = Acknowledgment(data)
    /\ pc' = "responded"
    /\ UNCHANGED <<data, i, examined, raised, stdout, prev, issued, calls, image_resp>>
    /\ UNCHANGED imgVars

\* the response has been sent; the server waits for the next request
Finish ==
    /\ pc = "responded"
    /\ pc' = "idle"
    /\ data' = NoData
    /\ i' = 1
    /\ response' = NoResponse
    /\ examined' = <<>>
    /\ raised' = 0
    /\ stdout' = <<>>
    /\ prev' = NoResponse
    /\ UNCHANGED <<issued, calls, image_resp>>
    /\ UNCHANGED imgVars

submit_bboxes == Receive \/ Resubmit \/ CheckBox \/ LoopDone \/ LogData \/ Return \/ Finish

(***************************************************************************)
(* GET /get-mock-image                                                     *)
(***************************************************************************)
\* mutant: the token is cut to nothing
ImageResponse_Empty(token) ==
    [status |-> 200, media_type |-> "image/png", headers |-> [ImageID |-> ""]]

\* the StreamingResponse with its Image-ID header
ImageResponse(token) ==
    [status |-> 200, media_type |-> "image/png", headers |-> [ImageID |-> token]]

\* the handler: a uuid4 token is drawn, nothing is looked up or stored
generate_image ==
    /\ calls < MaxCalls
    /\ \E token \in UuidTokens :
        /\ image_resp' = ImageResponse(token)
        /\ issued' = issued \cup {image_resp'.headers.ImageID}
    /\ calls' = calls + 1
    /\ UNCHANGED <<pc, data, i, response, examined, raised, stdout, prev>>
    /\ UNCHANGED imgVars

(***************************************************************************)
(* The image synthesizer (src/utils/img.py)                                *)
(***************************************************************************)
font_size == 200
image_size == 1000
corner_square_size == 10
crosshair_length == 50
crosshair_thickness == 6
shape_size == 25

\* number of characters of strftime("%Y-%m-%d %H:%M:%S UTC")
CaptionLength == 23

color_choices == {"red", "blue", "green", "black"}
shape_choices == {"rectangle", "circle"}

\* the columns (or rows) of the canvas
CanvasRange == 0..(image_size - 1)

\* canvas pixels watched: the corners, the centre, the caption band and
\* their neighbourhoods
ProbeCoords == {0, 10, 11, 30, 498, 503, 504, 990, 999}
ProbePixels == ProbeCoords \X ProbeCoords

\* shape positions followed, on each axis: over a corner, next to it, over
\* the centre, the last position, and the first one past it
PositionSamples == {0, 5, 490, 974, 975}

\* np.random.randint(low, high): an integer of the half-open range
randint(low, high) == low..(high - 1)

\* the positions get_random_position can return
get_random_position(img_size, shp_size) ==
    randint(0, img_size - shp_size) \X randint(0, img_size - shp_size)

\* a box [x0, y0, x1, y1] as PIL's rectangle and ellipse take it: both
\* corner points belong to the box
InBox(p, box) ==
    /\ box[1] <= p[1] /\ p[1] <= box[3]
    /\ box[2] <= p[2] /\ p[2] <= box[4]

InAnyBox(p, boxes) == \E k \in 1..Len(boxes) : InBox(p, boxes[k])

\* the canvas columns and rows a filled box paints: drawing is clipped to
\* the canvas
PaintedColumns(box) == (box[1]..box[3]) \cap CanvasRange
PaintedRows(box) == (box[2]..box[4]) \cap CanvasRange

\* the point lies within the ellipse inscribed in the box
InEllipse(p, box) ==
    LET w == box[3] - box[1]
        h == box[4] - box[2]
        dx == 2 * (p[1] - box[1]) - w
        dy == 2 * (p[2] - box[2]) - h
    IN  /\ InBox(p, box)
        /\ dx * dx * h * h + dy * dy * w * w <= w * w * h * h

\* the box handed to draw.rectangle and draw.ellipse for a shape
ShapeBox(x, y, size) == <<x, y, x + size, y + size>>

\* colour of pixel p after draw_rectangle, given its colour before
draw_rectangle(p, before, color, x, y, size) ==
    IF InBox(p, ShapeBox(x, y, size)) THEN color ELSE before

\* colour of pixel p after draw_circle, given its colour before
draw_circle(p, before, color, x, y, size) ==
    IF InEllipse(p, ShapeBox(x, y, size)) THEN color ELSE before

\* the four corner rectangles, in drawing order: top-left, top-right,
\* bottom-left, bottom-right
CornerBoxes ==
    << <<0, 0, corner_square_size, corner_square_size>>,
       <<image_size - corner_square_size, 0, image_size, corner_square_size>>,
       <<0, image_size - corner_square_size, corner_square_size, image_size>>,
       <<image_size - corner_square_size, image_size - corner_square_size,
         image_size, image_size>> >>

\* the pixels of an axis-parallel line of the given width from <<x0, y0>>
\* to <<x1, y1>>: PIL widens it by (width - 1) / 2 rounded down on one
\* side and rounded up on the other
LineBox(x0, y0, x1, y1, width) ==
    IF y0 = y1
    THEN <<x0, y0 - (width - 1) \div 2, x1, y0 + width \div 2>>
    ELSE <<x0 - (width - 1) \div 2, y0, x0 + width \div 2, y1>>

\* the two lines of the crosshair
CrosshairBoxes ==
    LET center_x == image_size \div 2
        center_y == image_size \div 2
    IN  << LineBox(center_x - crosshair_length, center_y,
                   center_x + crosshair_length, center_y, crosshair_thickness),
           LineBox(center_x, center_y - crosshair_length,
                   center_x, center_y + crosshair_length, crosshair_thickness) >>

NoFont == [family |-> "none", size |-> 0]

\* ImageFont.truetype("arial.ttf", font_size): the font, or IOError when
\* the file cannot be opened
IOError == [family |-> "IOError", size |-> 0]
truetype == {[family |-> "arial.ttf", size |-> font_size], IOError}

\* ImageFont.load_default()
load_default == [family |-> "default", size |-> 10]

\* mutant: the handler is written for another exception class, so the
\* IOError goes through
TryLoadFont_NoFallback(outcome) == outcome

\* the try/except around the font loading: what `font` is afterwards
TryLoadFont(outcome) ==
    IF outcome = IOError THEN load_default ELSE outcome

\* draw.textbbox((0, 0), utc_now, font=font)[2:]: width and height of the
\* caption, its characters taken as half an em wide and an em tall
textbbox(f) == <<(CaptionLength * f.size) \div 2, f.size>>

\* mutant: the caption is centred on both axes
text_position_Centred(text_width, text_height) ==
    <<(image_size - text_width) \div 2, (image_size - text_height) \div 2>>

\* top-centre position of the caption
text_position(text_width, text_height) ==
    <<(image_size - text_width) \div 2, 20>>

\* mutant: the shapes are drawn over the markers and the crosshair
DrawingOrder_ShapesLast == <<"corners", "crosshair", "shapes", "font", "caption">>

\* the order of the drawing statements of generate_mock_image
DrawingOrder == <<"shapes", "corners", "crosshair", "font", "caption">>

\* the statement that follows stage s
AfterStage(s) ==
    LET k == CHOOSE j \in 1..Len(DrawingOrder) : DrawingOrder[j] = s
    IN  IF k < Len(DrawingOrder) THEN DrawingOrder[k + 1] ELSE "return"

\* GET /get-mock-image arrives: generate_image draws the token
image_request ==
    /\ ipc = "idle"
    /\ image_id' \in UuidTokens
    /\ ipc' = "new"
    /\ UNCHANGED <<probe, pixel, num_shapes, shape_i, x_position, y_position,
                   shape_hit, corners, crosshair, font, caption>>
    /\ UNCHANGED apiVars

\* the blank white canvas and the shape count
new_canvas ==
    /\ ipc = "new"
    /\ pixel' = "white"
    /\ num_shapes' \in {1, 2, 3}
    /\ shape_i' = 0
    /\ ipc' = DrawingOrder[1]
    /\ UNCHANGED <<image_id, probe, x_position, y_position, shape_hit, corners,
                   crosshair, font, caption>>
    /\ UNCHANGED apiVars

\* one iteration of the shape loop
draw_shape ==
    /\ ipc = "shapes"
    /\ shape_i < num_shapes
    /\ \E pos \in {q \in PositionSamples \X PositionSamples :
                        q \in get_random_position(image_size, shape_size)} :
       \E color \in color_choices, shape \in shape_choices :
        /\ x_position' = pos[1]
        /\ y_position' = pos[2]
        /\ pixel' = IF shape = "rectangle"
                    THEN draw_rectangle(probe, pixel, color, pos[1], pos[2], shape_size)
                    ELSE draw_circle(probe, pixel, color, pos[1], pos[2], shape_size)
        /\ shape_hit' = (shape_hit \/
                         IF shape = "rectangle"
                         THEN InBox(probe, ShapeBox(pos[1], pos[2], shape_size))
                         ELSE InEllipse(probe, ShapeBox(pos[1], pos[2], shape_size)))
    /\ shape_i' = shape_i + 1
    /\ ipc' = IF shape_i + 1 = num_shapes THEN AfterStage("shapes") ELSE "shapes"
    /\ UNCHANGED <<image_id, probe, num_shapes, corners, crosshair, font, caption>>
    /\ UNCHANGED apiVars

\* the four black rectangles at the corners
draw_corners ==
    /\ ipc = "corners"
    /\ corners' = CornerBoxes
    /\ pixel' = IF InAnyBox(probe, CornerBoxes) THEN "black" ELSE pixel
    /\ ipc' = AfterStage("corners")
    /\ UNCHANGED <<image_id, probe, num_shapes, shape_i, x_position, y_position,
                   shape_hit, crosshair, font, caption>>
    /\ UNCHANGED apiVars

\* the two red lines of the crosshair
draw_crosshair ==
    /\ ipc = "crosshair"
    /\ crosshair' = CrosshairBoxes
    /\ pixel' = IF InAnyBox(probe, CrosshairBoxes) THEN "red" ELSE pixel
    /\ ipc' = AfterStage("crosshair")
    /\ UNCHANGED <<image_id, probe, num_shapes, shape_i, x_position, y_position,
                   shape_hit, corners, font, caption>>
    /\ UNCHANGED apiVars

\* the font is loaded; an exception that is not caught ends the request
\* with a server error
load_font ==
    /\ ipc = "font"
    /\ \E outcome \in truetype :
        IF TryLoadFont(outcome) = IOError
        THEN /\ ipc' = "error"
             /\ image_resp' = [status |-> 500]
             /\ UNCHANGED font
        ELSE /\ font' = TryLoadFont(outcome)
             /\ ipc' = AfterStage("font")
             /\ UNCHANGED image_resp
    /\ UNCHANGED <<image_id, probe, pixel, num_shapes, shape_i, x_position,
                   y_position, shape_hit, corners, crosshair, caption>>
    /\ UNCHANGED <<pc, data, i, response, examined, raised, stdout, prev, issued, calls>>

\* the caption is measured, placed and drawn in black: within its box the
\* glyphs cover some pixels and leave the others
draw_caption ==
    /\ ipc = "caption"
    /\ LET size == textbbox(font)
           at == text_position(size[1], size[2])
           box == <<at[1], at[2], at[1] + size[1], at[2] + size[2]>>
       IN  /\ caption' = box
           /\ pixel' \in (IF InBox(probe, box) THEN {"black", pixel} ELSE {pixel})
    /\ ipc' = AfterStage("caption")
    /\ UNCHANGED <<image_id, probe, num_shapes, shape_i, x_position, y_position,
                   shape_hit, corners, crosshair, font>>
    /\ UNCHANGED apiVars

\* generate_mock_image returns and generate_image sends the response
respond_image ==
    /\ ipc = "return"
    /\ image_resp' = ImageResponse(image_id)
    /\ issued' = issued \cup {image_resp'.headers.ImageID}
    /\ calls' = calls + 1
    /\ ipc' = "done"
    /\ UNCHANGED imgVarsButIpc
    /\ UNCHANGED <<pc, data, i, response, examined, raised, stdout, prev>>

generate_mock_image ==
    new_canvas \/ draw_shape \/ draw_corners \/ draw_crosshair \/ load_font \/ draw_caption

ImgIdle ==
    /\ ipc = "idle"
    /\ image_id = ""
    /\ pixel = "none"
    /\ num_shapes = 0
    /\ shape_i = 0
    /\ x_position = -1
    /\ y_position = -1
    /\ shape_hit = FALSE
    /\ corners = <<>>
    /\ crosshair = <<>>
    /\ font = NoFont
    /\ caption = <<>>

ApiIdle ==
    /\ pc = "idle"
    /\ data = NoData
    /\ i = 1
    /\ response = NoResponse
    /\ examined = <<>>
    /\ raised = 0
    /\ stdout = <<>>
    /\ prev = NoResponse
    /\ issued = {}
    /\ calls = 0
    /\ image_resp = NoResponse

Init == ApiIdle /\ ImgIdle /\ probe = <<0, 0>>

Next == submit_bboxes \/ generate_image

Spec == Init /\ [][Next]_vars

InitImg == ApiIdle /\ ImgIdle /\ probe \in ProbePixels

NextImg == image_request \/ generate_mock_image \/ respond_image

SpecImg == InitImg /\ [][NextImg]_vars

(***************************************************************************)
(* Properties of POST /submit-bbox and of the Image-ID tokens (Spec)       *)
(***************************************************************************)
Answered == pc = "responded"

\* the geometry rule of the data model, stated on the coordinates
WellFormed(bbox) == bbox.x_min < bbox.x_max /\ bbox.y_min < bbox.y_max

AckMessage == "Bounding boxes received successfully"
ErrorDetail == "Invalid bounding box coordinates."

\* C1: a request whose boxes all have x_min < x_max and y_min < y_max is
\* answered 200 with the success message, its own image_id, and its bboxes
\* echoed with the same length, the same order and every field unchanged.
C1_ValidAcceptedAndEchoed ==
    (Answered /\ \A k \in 1..Len(data.bboxes) : WellFormed(data.bboxes[k]))
    => /\ response.status = 200
       /\ response.body.message = AckMessage
       /\ response.body.image_id = data.image_id
       /\ Len(response.body.bboxes) = Len(data.bboxes)
       /\ \A k \in 1..Len(data.bboxes) :
            /\ response.body.bboxes[k].x_min = data.bboxes[k].x_min
            /\ response.body.bboxes[k].y_min = data.bboxes[k].y_min
            /\ response.body.bboxes[k].x_max = data.bboxes[k].x_max
            /\ response.body.bboxes[k].y_max = data.bboxes[k].y_max
            /\ response.body.bboxes[k].color = data.bboxes[k].color
            /\ response.body.bboxes[k].shape = data.bboxes[k].shape

\* two different valid boxes were submitted and acknowledged
C1_Witness ==
    /\ Answered
    /\ Len(data.bboxes) = 2
    /\ WellFormed(data.bboxes[1]) /\ WellFormed(data.bboxes[2])
    /\ data.bboxes[1] # data.bboxes[2]
    /\ response.status = 200

\* C2: a request with at least one box with x_min >= x_max or
\* y_min >= y_max, at any position, is answered 400 with the fixed detail
\* and nothing else: no message, no image_id, no bboxes.
C2_InvalidRejectedWhole ==
    (Answered /\ \E k \in 1..Len(data.bboxes) : ~WellFormed(data.bboxes[k]))
    => /\ response.status = 400
       /\ DOMAIN response.body = {"detail"}
       /\ response.body.detail = ErrorDetail

\* a valid box followed by a box invalid on one axis only was rejected
C2_Witness ==
    /\ Answered
    /\ Len(data.bboxes) = 2
    /\ WellFormed(data.bboxes[1])
    /\ data.bboxes[2].x_min >= data.bboxes[2].x_max
    /\ data.bboxes[2].y_min < data.bboxes[2].y_max
    /\ response.status = 400

\* C3: the response to a submission is the response the same body got
\* before, whatever tokens the server issued before, between or after the
\* two submissions and whether or not the image_id was ever issued.
C3_SameBodySameResponse ==
    (Answered /\ prev # NoResponse) => response = prev

\* a body naming an image the server never issued was submitted twice, with
\* images issued meanwhile, and was acknowledged both times
C3_Witness ==
    /\ Answered
    /\ prev # NoResponse
    /\ data.image_id \notin issued
    /\ calls > 0
    /\ Len(data.bboxes) > 0
    /\ response.status = 200

C6_StopsAtFirstInvalid ==
    /\ \A k \in 1..Len(examined) : examined[k] = k
    /\ \A k \in 1..(Len(examined) - 1) : WellFormed(data.bboxes[examined[k]])
    /\ raised <= 1
    /\ raised = 1 <=> response.status = 400
    /\ response.status = 400
       => /\ Len(examined) >= 1
          /\ ~WellFormed(data.bboxes[examined[Len(examined)]])
          /\ stdout = <<>>
          /\ response # Acknowledgment(data)
          /\ pc = "responded"

\* the first of two boxes was invalid: the request was rejected with the
\* second box untested
C6_Witness ==
    /\ Answered
    /\ Len(data.bboxes) = 2
    /\ examined = <<1>>
    /\ raised = 1
    /\ response.status = 400

\* C10: a request with an empty bboxes list is acknowledged: no box is
\* tested, nothing is raised, and the 200 answer echoes the image_id and an
\* empty list.
C10_EmptyListAccepted ==
    (Answered /\ Len(data.bboxes) = 0)
    => /\ examined = <<>>
       /\ raised = 0
       /\ response.status = 200
       /\ response.body.message = AckMessage
       /\ response.body.image_id = data.image_id
       /\ response.body.bboxes = <<>>

\* a request without boxes was acknowledged
C10_Witness ==
    /\ Answered
    /\ data.bboxes = <<>>
    /\ data.image_id \in ImageIds
    /\ response.status = 200

(***************************************************************************)
(* Properties of the image synthesizer (SpecImg)                           *)
(***************************************************************************)
\* the box lies within the canvas pixels on both axes
WithinCanvas(box) ==
    /\ box[1] \in CanvasRange /\ box[3] \in CanvasRange
    /\ box[2] \in CanvasRange /\ box[4] \in CanvasRange

PixelCount(box) == Cardinality(PaintedColumns(box)) * Cardinality(PaintedRows(box))

\* C5: a failure to load the preferred font never fails the request: the
\* synthesizer goes on with the default font, the caption is drawn, the
\* image is returned and the request is answered 200, with either font.
C5_FontFailureRecovered ==
    /\ ipc # "error"
    /\ image_resp.status \in {0, 200}
    /\ ipc \in {"caption", "return", "done"} => font \in (truetype \cup {load_default}) \ {IOError}
    /\ ipc = "done"
       => /\ caption # <<>>
          /\ image_resp.status = 200

\* the preferred font could not be loaded and the request was answered
\* with the caption drawn in the default font
C5_Witness ==
    /\ ipc = "done"
    /\ font = load_default
    /\ caption # <<>>
    /\ image_resp.status = 200

\* C7: the region drawn for a shape at a position get_random_position
\* returned is shape_size pixels wide and high and lies within the canvas,
\* and every position at which a shape_size by shape_size region fits in
\* the canvas is one get_random_position can return.
C7_ShapeRegionIsShapeSize ==
    shape_i > 0
    => LET box == ShapeBox(x_position, y_position, shape_size)
       IN  /\ WithinCanvas(box)
           /\ Cardinality(PaintedColumns(box)) = shape_size
           /\ Cardinality(PaintedRows(box)) = shape_size
           /\ \A x \in CanvasRange :
                x + shape_size - 1 \in CanvasRange
                => <<x, x>> \in get_random_position(image_size, shape_size)

\* C8: each of the four corner markers is corner_square_size pixels wide
\* and high, is asked for within the canvas, touches its corner, and covers
\* as many pixels as the other three.
C8_CornerMarkersSameSquare ==
    \A k \in 1..Len(corners) :
        /\ WithinCanvas(corners[k])
        /\ Cardinality(PaintedColumns(corners[k])) = corner_square_size
        /\ Cardinality(PaintedRows(corners[k])) = corner_square_size
        /\ 0 \in PaintedColumns(corners[k]) \/ image_size - 1 \in PaintedColumns(corners[k])
        /\ 0 \in PaintedRows(corners[k]) \/ image_size - 1 \in PaintedRows(corners[k])
        /\ \A j \in 1..Len(corners) : PixelCount(corners[j]) = PixelCount(corners[k])

\* C9: the shapes are all drawn before the corner markers, the markers
\* before the crosshair and the crosshair before the caption; on the
\* returned canvas every pixel of a corner marker is black and every pixel
\* of the crosshair is red, whatever shapes were drawn.
C9_MarkersAndCrosshairOnTop ==
    /\ corners # <<>> => (shape_i = num_shapes /\ num_shapes \in {1, 2, 3})
    /\ crosshair # <<>> => corners # <<>>
    /\ caption # <<>> => crosshair # <<>>
    /\ ipc = "done"
       => /\ InAnyBox(probe, corners) => pixel = "black"
          /\ InAnyBox(probe, crosshair) => pixel = "red"

\* a shape was painted over a pixel of the crosshair, which is red on the
\* returned canvas
C9_Witness ==
    /\ ipc = "done"
    /\ shape_hit
    /\ InAnyBox(probe, crosshair)
    /\ pixel = "red"

====
